---------------------------- MODULE Spec2Model ----------------------------
(***************************************************************************)
(* RegistrationSystem (src/registration_system.py): one SQLite table,      *)
(* Registration, and five operations on it.  Every operation opens its own *)
(* connection, runs one statement and commits (or rolls back on an         *)
(* exception), so an operation is one atomic step on the committed table.  *)
(*                                                                         *)
(* Text is a sequence of one-character strings, so that LIKE, length() and *)
(* Python's substring test are computed on the characters.  A column value *)
(* is a record [t, v]: its storage class and its characters.               *)
(***************************************************************************)
EXTENDS Integers, Sequences, FiniteSets, TLC

VARIABLES rows, seq, now, last, issued, deleted

vars == <<rows, seq, now, last, issued, deleted>>

(***************************************************************************)
(* Bounds of the model.                                                    *)
(***************************************************************************)
\* Successful inserts explored (the largest id handed out).
MaxId == 2
\* Readings of CURRENT_TIMESTAMP explored: 0 .. MaxClock.
MaxClock == 1
\* Longest email string of the email-pattern specification.
MaxEmailLen == 7

(***************************************************************************)
(* Values: Python None / SQL NULL, text, and integers (as their decimal    *)
(* digits).  ABSENT marks a key that a dict does not hold.                 *)
(***************************************************************************)
NULL == [t |-> "null", v |-> <<>>]
ABSENT == [t |-> "absent", v |-> <<>>]
Text(s) == [t |-> "text", v |-> s]
Integer(s) == [t |-> "integer", v |-> s]

Digits == {"0", "1", "2", "3", "4", "5", "6", "7", "8", "9"}

\* Whether text is an integer literal: an optional sign, then digits only.
IsIntegerLiteral(s) ==
  /\ Len(s) > 0
  /\ LET body == IF s[1] \in {"+", "-"} THEN Tail(s) ELSE s
     IN /\ Len(body) > 0
        /\ \A i \in 1..Len(body) : body[i] \in Digits

RECURSIVE StripZeros(_)
StripZeros(s) ==
  IF Len(s) > 1 /\ Head(s) = "0" THEN StripZeros(Tail(s)) ELSE s

\* The decimal digits of the integer that an integer literal denotes.
CanonInt(s) ==
  LET neg  == s[1] = "-"
      body == StripZeros(IF s[1] \in {"+", "-"} THEN Tail(s) ELSE s)
  IN IF neg /\ body # <<"0">> THEN <<"-">> \o body ELSE body

\* Column affinity NUMERIC (the declared type DATE): text that is a
\* well-formed integer literal is stored as an INTEGER; other text stays
\* text.  (Real literals and surrounding blanks convert too; the model's
\* alphabet has no '.', 'e' or blank in a date.)
NumericAffinity(x) ==
  IF x.t = "text" /\ IsIntegerLiteral(x.v) THEN Integer(CanonInt(x.v)) ELSE x

\* Column affinity TEXT (VARCHAR(n), TEXT): a number is stored as its text.
TextAffinity(x) ==
  IF x.t = "integer" THEN Text(x.v) ELSE x

(***************************************************************************)
(* The schema's constraints.                                               *)
(***************************************************************************)
S_active == <<"a","c","t","i","v","e">>
S_inactive == <<"i","n","a","c","t","i","v","e">>
S_pending == <<"p","e","n","d","i","n","g">>

\* status VARCHAR(20) DEFAULT 'active'
DefaultStatus == Text(S_active)

AllowedStatus == {S_active, S_inactive, S_pending}

\* A pattern that asks one character after the '@': '%_@_%.__%'
ValidEmailPatternOne == <<"%","_","@","_","%",".","_","_","%">>

\* email LIKE '%_@__%.__%'
ValidEmailPattern == <<"%","_","@","_","_","%",".","_","_","%">>

\* SQL LIKE: '%' matches any run of characters, '_' exactly one, any other
\* character itself (the pattern holds no letter, so case plays no part).
RECURSIVE Like(_, _)
Like(p, s) ==
  IF p = <<>> THEN s = <<>>
  ELSE IF Head(p) = "%"
       THEN Like(Tail(p), s) \/ (s # <<>> /\ Like(p, Tail(s)))
       ELSE /\ s # <<>>
            /\ (Head(p) = "_" \/ Head(p) = Head(s))
            /\ Like(Tail(p), Tail(s))

\* A CHECK constraint fails only when its expression is false; on a NULL
\* operand the expression is NULL and the constraint passes.
CheckStatus(x) == x.t = "null" \/ (x.t = "text" /\ x.v \in AllowedStatus)
CheckValidEmail(x) == x.t = "null" \/ Like(ValidEmailPattern, x.v)
CheckValidName(x) == x.t = "null" \/ Len(x.v) >= 2

MsgNotNullName == "NOT NULL constraint failed: Registration.name"
MsgNotNullEmail == "NOT NULL constraint failed: Registration.email"
MsgNotNullDob == "NOT NULL constraint failed: Registration.date_of_birth"
MsgCheckStatus == "CHECK constraint failed: status IN ('active', 'inactive', 'pending')"
MsgCheckEmail == "CHECK constraint failed: valid_email"
MsgCheckName == "CHECK constraint failed: valid_name"
MsgUniqueEmail == "UNIQUE constraint failed: Registration.email"
MsgEmailExists == "Email already exists"
MsgNoFields == "No valid fields to update"

\* The characters of the store's messages, for Python's substring test.
Chars(msg) ==
  CASE msg = MsgNotNullName ->
       <<"N","O","T"," ","N","U","L","L"," ","c","o","n","s","t","r","a","i","n","t"," ","f","a","i","l","e","d",":"," ","R","e","g","i","s","t","r","a","t","i","o","n",".","n","a","m","e">>
    [] msg = MsgNotNullEmail ->
       <<"N","O","T"," ","N","U","L","L"," ","c","o","n","s","t","r","a","i","n","t"," ","f","a","i","l","e","d",":"," ","R","e","g","i","s","t","r","a","t","i","o","n",".","e","m","a","i","l">>
    [] msg = MsgNotNullDob ->
       <<"N","O","T"," ","N","U","L","L"," ","c","o","n","s","t","r","a","i","n","t"," ","f","a","i","l","e","d",":"," ","R","e","g","i","s","t","r","a","t","i","o","n",".","d","a","t","e","_","o","f","_","b","i","r","t","h">>
    [] msg = MsgCheckStatus ->
       <<"C","H","E","C","K"," ","c","o","n","s","t","r","a","i","n","t"," ","f","a","i","l","e","d",":"," ","s","t","a","t","u","s"," ","I","N"," ","(","'","a","c","t","i","v","e","'",","," ","'","i","n","a","c","t","i","v","e","'",","," ","'","p","e","n","d","i","n","g","'",")">>
    [] msg = MsgCheckEmail ->
       <<"C","H","E","C","K"," ","c","o","n","s","t","r","a","i","n","t"," ","f","a","i","l","e","d",":"," ","v","a","l","i","d","_","e","m","a","i","l">>
    [] msg = MsgCheckName ->
       <<"C","H","E","C","K"," ","c","o","n","s","t","r","a","i","n","t"," ","f","a","i","l","e","d",":"," ","v","a","l","i","d","_","n","a","m","e">>
    [] msg = MsgUniqueEmail ->
       <<"U","N","I","Q","U","E"," ","c","o","n","s","t","r","a","i","n","t"," ","f","a","i","l","e","d",":"," ","R","e","g","i","s","t","r","a","t","i","o","n",".","e","m","a","i","l">>

\* Python's `needle in haystack` on strings.
Contains(haystack, needle) ==
  \E i \in 0..(Len(haystack) - Len(needle)) :
     SubSeq(haystack, i + 1, i + Len(needle)) = needle

\* The first constraint the statement trips on a candidate row, or "ok":
\* NOT NULL in column order, then the CHECKs in the order of the CREATE
\* TABLE, then UNIQUE(email) against the other rows.
ConstraintFailure(others, row) ==
  IF row.name.t = "null" THEN MsgNotNullName
  ELSE IF row.email.t = "null" THEN MsgNotNullEmail
  ELSE IF row.date_of_birth.t = "null" THEN MsgNotNullDob
  ELSE IF ~CheckStatus(row.status) THEN MsgCheckStatus
  ELSE IF ~CheckValidEmail(row.email) THEN MsgCheckEmail
  ELSE IF ~CheckValidName(row.name) THEN MsgCheckName
  ELSE IF \E o \in others : o.email = row.email THEN MsgUniqueEmail
  ELSE "ok"


(***************************************************************************)
(* The table and Python dicts.                                             *)
(***************************************************************************)
\* A dict is a function from some keys to values; dict.get(k) is None for
\* a key it does not hold.
Get(d, k) == IF k \in DOMAIN d THEN d[k] ELSE NULL

\* The dict that holds the keys of f whose value is not ABSENT.
Dict(f) == [k \in {x \in DOMAIN f : f[x] # ABSENT} |-> f[k]]

EmptyDict == Dict([k \in {} |-> ABSENT])

SetMax(S) == IF S = {} THEN 0 ELSE CHOOSE m \in S : \A x \in S : x <= m

\* INTEGER PRIMARY KEY without AUTOINCREMENT: one more than the largest
\* rowid now in the table, so the id of a deleted last row is handed out
\* again.
NextRowidReusing(table, sequence) == SetMax(DOMAIN table) + 1

\* INTEGER PRIMARY KEY AUTOINCREMENT: one more than the largest rowid the
\* table ever held (kept in sqlite_sequence).
NextRowid(table, sequence) ==
  (IF sequence >= SetMax(DOMAIN table) THEN sequence ELSE SetMax(DOMAIN table)) + 1

\* user_data['name'], user_data['email'], user_data['date_of_birth'] are
\* evaluated in this order; the first key missing raises KeyError.
RequiredKeys == <<"name", "email", "date_of_birth">>

MissingKey(user_data) ==
  IF \A i \in 1..Len(RequiredKeys) : RequiredKeys[i] \in DOMAIN user_data
  THEN ""
  ELSE RequiredKeys[CHOOSE i \in 1..Len(RequiredKeys) :
                      /\ RequiredKeys[i] \notin DOMAIN user_data
                      /\ \A j \in 1..(i - 1) : RequiredKeys[j] \in DOMAIN user_data]

\* A create that wrote the caller's status into the row.
InsertedStatusSupplied(user_data) ==
  IF "status" \in DOMAIN user_data
  THEN TextAffinity(user_data["status"])
  ELSE DefaultStatus

\* The INSERT names five columns; status is not one of them, so the row
\* gets the column's default whatever user_data holds.
InsertedStatus(user_data) == DefaultStatus

\* The row the INSERT builds: the five bound parameters after their
\* columns' affinity, the defaults of the others.
InsertRow(user_data, id, clock) ==
  [id                |-> id,
   name              |-> TextAffinity(user_data["name"]),
   email             |-> TextAffinity(user_data["email"]),
   date_of_birth     |-> NumericAffinity(user_data["date_of_birth"]),
   phone_number      |-> TextAffinity(Get(user_data, "phone_number")),
   address           |-> TextAffinity(Get(user_data, "address")),
   registration_date |-> clock,
   status            |-> InsertedStatus(user_data)]

RowsOf(table) == {table[i] : i \in DOMAIN table}

\* What an operation leaves for its caller: the exception raised ("none"
\* for a normal return), its message (for a KeyError, the key), and the
\* value returned (in a one-element sequence; <<>> is None or no return).
Outcome(op, id, input, exc, msg, ret) ==
  [op |-> op, id |-> id, input |-> input, exc |-> exc, msg |-> msg, ret |-> ret]

\* except sqlite3.IntegrityError as e, in create_registration.
CreateErrorMessage(e) ==
  IF Contains(Chars(e), <<"e","m","a","i","l">>) THEN MsgEmailExists ELSE e

(***************************************************************************)
(* The operations.                                                         *)
(***************************************************************************)
CreateRegistration(user_data) ==
  LET missing == MissingKey(user_data)
      id      == NextRowid(rows, seq)
  IN IF missing # ""
     THEN /\ last' = Outcome("create", 0, user_data, "KeyError", missing, <<>>)
          /\ UNCHANGED <<rows, seq, now, issued, deleted>>
     ELSE LET row  == InsertRow(user_data, id, now)
              fail == ConstraintFailure(RowsOf(rows), row)
          IN IF fail # "ok"
             THEN /\ last' = Outcome("create", 0, user_data, "ValueError",
                                     CreateErrorMessage(fail), <<>>)
                  /\ UNCHANGED <<rows, seq, now, issued, deleted>>
             ELSE /\ id <= MaxId
                  /\ rows' = [i \in DOMAIN rows \cup {id} |->
                                IF i = id THEN row ELSE rows[i]]
                  /\ seq' = id
                  /\ issued' = Append(issued, id)
                  /\ last' = Outcome("create", 0, user_data, "none", "", <<id>>)
                  /\ UNCHANGED <<now, deleted>>

\* SELECT * FROM Registration WHERE id = ?
SelectOne(table, id) == IF id \in DOMAIN table THEN <<table[id]>> ELSE <<>>

\* SELECT * FROM Registration: the rows in rowid order.
RECURSIVE SelectAll(_)
SelectAll(table) ==
  IF DOMAIN table = {} THEN <<>>
  ELSE LET m == SetMax(DOMAIN table)
       IN Append(SelectAll([i \in DOMAIN table \ {m} |-> table[i]]), table[m])

ReadRegistration(id) ==
  /\ last' = Outcome("read", id, EmptyDict, "none", "", SelectOne(rows, id))
  /\ UNCHANGED <<rows, seq, now, issued, deleted>>

ReadAllRegistrations ==
  /\ last' = Outcome("read_all", 0, EmptyDict, "none", "", <<SelectAll(rows)>>)
  /\ UNCHANGED <<rows, seq, now, issued, deleted>>

\* A filter that lets the primary key through.
AllowedFieldsWithId ==
  {"id", "name", "email", "date_of_birth", "phone_number", "address", "status"}

AllowedFields ==
  {"name", "email", "date_of_birth", "phone_number", "address", "status"}

UpdateFields(update_data) ==
  [k \in DOMAIN update_data \cap AllowedFields |-> update_data[k]]

\* The value a column takes from a bound parameter.
Stored(column, x) ==
  IF column = "date_of_birth" THEN NumericAffinity(x) ELSE TextAffinity(x)

\* UPDATE ... SET f = ? for the fields of the patch, on one row.
SetFields(row, fields) ==
  [c \in DOMAIN row |-> IF c \in DOMAIN fields THEN Stored(c, fields[c]) ELSE row[c]]

UpdateRegistration(id, update_data) ==
  LET fields == UpdateFields(update_data)
  IN IF DOMAIN fields = {}
     THEN /\ last' = Outcome("update", id, update_data, "ValueError", MsgNoFields, <<>>)
          /\ UNCHANGED <<rows, seq, now, issued, deleted>>
     ELSE IF id \notin DOMAIN rows
     THEN /\ last' = Outcome("update", id, update_data, "none", "", <<FALSE>>)
          /\ UNCHANGED <<rows, seq, now, issued, deleted>>
     ELSE LET row  == SetFields(rows[id], fields)
              fail == ConstraintFailure(RowsOf(rows) \ {rows[id]}, row)
          IN IF fail # "ok"
             THEN /\ last' = Outcome("update", id, update_data, "ValueError", fail, <<>>)
                  /\ UNCHANGED <<rows, seq, now, issued, deleted>>
             ELSE /\ rows' = [rows EXCEPT ![id] = row]
                  /\ last' = Outcome("update", id, update_data, "none", "", <<TRUE>>)
                  /\ UNCHANGED <<seq, now, issued, deleted>>

\* A DELETE whose WHERE clause matches nothing.
DeleteFromNothing(table, id) == table

\* DELETE FROM Registration WHERE id = ?
DeleteFrom(table, id) == [i \in DOMAIN table \ {id} |-> table[i]]

DeleteRegistration(id) ==
  /\ rows' = DeleteFrom(rows, id)
  /\ deleted' = IF id \in DOMAIN rows THEN deleted \cup {id} ELSE deleted
  /\ last' = Outcome("delete", id, EmptyDict, "none", "", <<id \in DOMAIN rows>>)
  /\ UNCHANGED <<seq, now, issued>>

\* CURRENT_TIMESTAMP moves on between operations.
Tick ==
  /\ now < MaxClock
  /\ now' = now + 1
  /\ UNCHANGED <<rows, seq, last, issued, deleted>>

\* __init__: CREATE TABLE IF NOT EXISTS on a new database file.
Init ==
  /\ rows = [i \in {} |-> 0]
  /\ seq = 0
  /\ now = 0
  /\ last = Outcome("init", 0, EmptyDict, "none", "", <<>>)
  /\ issued = <<>>
  /\ deleted = {}


(***************************************************************************)
(* The inputs explored.                                                    *)
(***************************************************************************)
\* A name too short, and two names long enough.
N_A == <<"A">>
N_Al == <<"A","l">>
N_Bo == <<"B","o">>

\* An address without a '.', then two well-formed addresses.
E_a_b == <<"a","@","b">>
E_a_bb_cc == <<"a","@","b","b",".","c","c">>
E_b_bb_cc == <<"b","@","b","b",".","c","c">>

\* An ISO 8601 date in the extended and in the basic format.
D_1990_01_01 == <<"1","9","9","0","-","0","1","-","0","1">>
D_19900101 == <<"1","9","9","0","0","1","0","1">>

P_555 == <<"5","5","5">>
A_St == <<"S","t">>
S_bogus == <<"b","o","g","u","s">>

Ids == 1..(MaxId + 1)

UserData(n, e, d, p, a, s) ==
  Dict([k \in {"name", "email", "date_of_birth", "phone_number", "address", "status"} |->
          CASE k = "name" -> n
            [] k = "email" -> e
            [] k = "date_of_birth" -> d
            [] k = "phone_number" -> p
            [] k = "address" -> a
            [] k = "status" -> s])

Iso == Text(D_1990_01_01)

\* Keys and deletion: two well-formed records, one sharing an email with
\* the first, one with a short name, one lacking a key.
RecordsKeys ==
  {UserData(Text(N_Al), Text(E_a_bb_cc), Iso, ABSENT, ABSENT, ABSENT),
   UserData(Text(N_Bo), Text(E_a_bb_cc), Iso, ABSENT, ABSENT, ABSENT),
   UserData(Text(N_Al), Text(E_b_bb_cc), Iso, ABSENT, ABSENT, ABSENT),
   UserData(Text(N_A), Text(E_b_bb_cc), Iso, ABSENT, ABSENT, ABSENT),
   UserData(Text(N_Al), ABSENT, Iso, ABSENT, ABSENT, ABSENT)}

PatchesKeys ==
  {EmptyDict,
   [k \in {"id"} |-> Integer(<<"4","2">>)],
   [k \in {"id", "registration_date"} |->
      IF k = "id" THEN Integer(<<"4","2">>) ELSE Integer(<<"9">>)],
   [k \in {"email"} |-> Text(E_b_bb_cc)],
   [k \in {"name"} |-> Text(N_Bo)],
   [k \in {"status"} |-> Text(S_inactive)],
   [k \in {"id", "phone_number"} |->
      IF k = "id" THEN Integer(<<"4","2">>) ELSE Text(P_555)]}

\* Constraints: every name with every email, with and without a status
\* outside the allowed ones; records without a date; records that lack a
\* required key.
RecordsConstraints ==
  {UserData(n, e, Iso, ABSENT, ABSENT, s) :
     n \in {NULL, Text(N_A), Text(N_Al)},
     e \in {NULL, Text(E_a_b), Text(E_a_bb_cc), Text(E_b_bb_cc)},
     s \in {ABSENT, Text(S_bogus)}}
  \cup
  {UserData(Text(N_Al), Text(E_b_bb_cc), NULL, ABSENT, ABSENT, ABSENT),
   UserData(Text(N_A), NULL, NULL, ABSENT, ABSENT, ABSENT),
   UserData(ABSENT, Text(E_a_bb_cc), Iso, ABSENT, ABSENT, ABSENT),
   UserData(Text(N_Al), ABSENT, Iso, ABSENT, ABSENT, ABSENT),
   UserData(Text(N_Al), Text(E_a_bb_cc), ABSENT, ABSENT, ABSENT, ABSENT)}

Patch(n, e, d, s) ==
  Dict([k \in {"name", "email", "date_of_birth", "status"} |->
          CASE k = "name" -> n
            [] k = "email" -> e
            [] k = "date_of_birth" -> d
            [] k = "status" -> s])

PatchesConstraints ==
  {Patch(n, e, ABSENT, s) :
     n \in {ABSENT, NULL, Text(N_A)},
     e \in {ABSENT, Text(E_a_b), Text(E_a_bb_cc), Text(E_b_bb_cc)},
     s \in {ABSENT, NULL, Text(S_bogus)}}
  \cup
  {Patch(ABSENT, NULL, ABSENT, ABSENT),
   Patch(ABSENT, ABSENT, NULL, ABSENT),
   Patch(ABSENT, NULL, NULL, Text(S_bogus))}

\* Fields: every date with every phone number with every address.
RecordsFields ==
  {UserData(Text(N_Al), Text(e), d, p, a, ABSENT) :
     e \in {E_a_bb_cc, E_b_bb_cc},
     d \in {Iso, Text(D_19900101)},
     p \in {ABSENT, Text(P_555)},
     a \in {ABSENT, Text(A_St)}}

PatchKeys ==
  {"id", "email", "date_of_birth", "phone_number", "address",
   "registration_date"}

PatchValues(k) ==
  CASE k = "id" -> {Integer(<<"4","2">>)}
    [] k = "email" -> {Text(E_b_bb_cc)}
    [] k = "date_of_birth" -> {Iso, Text(D_19900101)}
    [] k = "phone_number" -> {NULL, Text(P_555)}
    [] k = "address" -> {Text(A_St)}
    [] k = "registration_date" -> {Integer(<<"9">>)}

\* The empty patch, the patches of one key, and patches that name a
\* disallowed key beside an allowed one or beside another disallowed one.
PatchesFields ==
  {EmptyDict}
  \cup UNION {{[x \in {k} |-> v] : v \in PatchValues(k)} : k \in PatchKeys}
  \cup {[k \in {"id", "phone_number"} |->
           IF k = "id" THEN Integer(<<"4","2">>) ELSE Text(P_555)],
        [k \in {"registration_date", "address"} |->
           IF k = "address" THEN Text(A_St) ELSE Integer(<<"9">>)],
        [k \in {"id", "registration_date"} |->
           IF k = "id" THEN Integer(<<"4","2">>) ELSE Integer(<<"9">>)],
        [k \in {"phone_number", "address"} |->
           IF k = "address" THEN Text(A_St) ELSE Text(P_555)]}

\* One step of a caller that draws its records and patches from the sets
\* given.
Step(records, patches) ==
  \/ \E user_data \in records : CreateRegistration(user_data)
  \/ \E id \in Ids : ReadRegistration(id)
  \/ ReadAllRegistrations
  \/ \E id \in Ids, update_data \in patches : UpdateRegistration(id, update_data)
  \/ \E id \in Ids : DeleteRegistration(id)
  \/ Tick

Next == Step(RecordsKeys, PatchesKeys)

Spec == Init /\ [][Next]_vars

NextConstraints == Step(RecordsConstraints, PatchesConstraints)

SpecConstraints == Init /\ [][NextConstraints]_vars

NextFields == Step(RecordsFields, PatchesFields)

SpecFields == Init /\ [][NextFields]_vars

(***************************************************************************)
(* The email pattern on every string over a small alphabet: a create as   *)
(* the first call on a new database, and an update as the call that        *)
(* follows the create of a row with a well-formed address.                 *)
(***************************************************************************)
Alphabet == {"a", "@", "."}

EmailStrings == UNION {[1..n -> Alphabet] : n \in 0..MaxEmailLen}

BaseEmail == <<"a","@","a","a",".","a","a">>

EmailRecord(e) == UserData(Text(N_Al), Text(e), Iso, ABSENT, ABSENT, ABSENT)

EmailPatch(e) == [k \in {"email"} |-> Text(e)]

NextEmail ==
  \/ \E e \in EmailStrings :
       /\ last.op = "init"
       /\ CreateRegistration(EmailRecord(e))
  \/ \E e \in EmailStrings :
       /\ last.op = "create"
       /\ DOMAIN rows = {1}
       /\ rows[1].email = Text(BaseEmail)
       /\ UpdateRegistration(1, EmailPatch(e))

SpecEmail == Init /\ [][NextEmail]_vars

(***************************************************************************)
(* Properties.  A step of operation op is a step that leaves a new         *)
(* outcome of op in last; the table before the step is rows, after it      *)
(* rows'.                                                                  *)
(***************************************************************************)
StepOf(op) == last' # last /\ last'.op = op

Returned(x) == last'.exc = "none" /\ last'.ret = <<x>>

\* Every row but those of the ids given is in both tables, unchanged.
SameExcept(before, after, ids) ==
  /\ DOMAIN before \ ids = DOMAIN after \ ids
  /\ \A i \in DOMAIN before \ ids : after[i] = before[i]

\* The mutable fields, as the claims list them.
MutableFields ==
  {"name", "email", "date_of_birth", "phone_number", "address", "status"}

ThreeStatuses ==
  {Text(<<"a","c","t","i","v","e">>), Text(<<"i","n","a","c","t","i","v","e">>),
   Text(<<"p","e","n","d","i","n","g">>)}

IsText(x) == x.t = "text"

\* C1: every successful create returns an id strictly greater than the id
\* of every earlier successful create, deletions in between included.
C1_IdsStrictlyIncrease ==
  /\ \A i, j \in 1..Len(issued) : i < j => issued[i] < issued[j]
  /\ (last.op = "create" /\ last.exc = "none") =>
        /\ Len(issued) > 0
        /\ last.ret = <<issued[Len(issued)]>>
        /\ last.ret[1] \in DOMAIN rows

\* A create has succeeded after an earlier id was handed out and deleted.
C1_Witness ==
  /\ last.op = "create"
  /\ last.exc = "none"
  /\ Len(issued) >= 2
  /\ issued[1] \in deleted

\* C6: an update whose patch is empty or names no mutable field raises the
\* no-op ValueError, whether or not the id has a row, and writes nothing.
C6_NoFieldsNoWrite ==
  [][(StepOf("update") /\ DOMAIN last'.input \cap MutableFields = {}) =>
        /\ last'.exc = "ValueError"
        /\ last'.msg = MsgNoFields
        /\ rows' = rows
        /\ seq' = seq]_vars

\* A patch of disallowed keys only was refused on a row that exists.
C6_Witness ==
  /\ last.op = "update"
  /\ last.id \in DOMAIN rows
  /\ DOMAIN last.input = {"id", "registration_date"}
  /\ last.exc = "ValueError"
  /\ last.msg = MsgNoFields

\* C7: delete never raises and returns true exactly when the id has a row;
\* then that row is gone and the others are unchanged, and no later read
\* of that id finds a row, whatever is created afterwards; a delete that
\* returns false changes nothing.
C7_DeleteIsFinal ==
  [][/\ StepOf("delete") =>
          /\ Returned(last'.id \in DOMAIN rows)
          /\ last'.id \notin DOMAIN rows'
          /\ SameExcept(rows, rows', {last'.id})
          /\ (last'.id \notin DOMAIN rows => rows' = rows)
     /\ \A d \in deleted' : SelectOne(rows', d) = <<>>
     /\ (StepOf("read") /\ last'.id \in deleted') =>
          last'.exc = "none" /\ last'.ret = <<>>]_vars

\* A deleted id was read, not found, after a later create had succeeded.
C7_Witness ==
  /\ last.op = "read"
  /\ last.id \in deleted
  /\ last.ret = <<>>
  /\ Len(issued) >= 2
  /\ issued[Len(issued)] > last.id
  /\ issued[Len(issued)] \in DOMAIN rows


\* The record supplies a status outside the three allowed ones, and a name,
\* an email and a date that break no constraint.
SuppliesBadStatus(user_data) ==
  /\ {"name", "email", "date_of_birth", "status"} \subseteq DOMAIN user_data
  /\ user_data["status"] \notin ThreeStatuses
  /\ IsText(user_data["status"])
  /\ IsText(user_data["name"]) /\ Len(user_data["name"].v) >= 2
  /\ IsText(user_data["email"]) /\ Like(ValidEmailPattern, user_data["email"].v)
  /\ IsText(user_data["date_of_birth"])

EmailPresent(table, e) == \E i \in DOMAIN table : table[i].email = e

\* C4, as claimed: a create whose record supplies a status outside
\* {active, inactive, pending}, with an otherwise valid name, email and
\* date of birth, fails with a validation error and persists no row.
C4_BadStatusRejected ==
  [][(StepOf("create") /\ SuppliesBadStatus(last'.input)) =>
        /\ last'.exc = "ValueError"
        /\ rows' = rows]_vars

\* C4, amended: such a create ignores the status supplied; with an email no
\* row holds it succeeds, returns a new id and persists one row, whose
\* status is 'active', and it leaves the other rows unchanged.
C4_BadStatusIgnored ==
  [][(/\ StepOf("create")
      /\ SuppliesBadStatus(last'.input)
      /\ ~EmailPresent(rows, last'.input["email"])) =>
        /\ last'.exc = "none"
        /\ Len(last'.ret) = 1
        /\ last'.ret[1] \notin DOMAIN rows
        /\ DOMAIN rows' = DOMAIN rows \cup {last'.ret[1]}
        /\ rows'[last'.ret[1]].status = Text(<<"a","c","t","i","v","e">>)
        /\ rows'[last'.ret[1]].email = last'.input["email"]
        /\ SameExcept(rows, rows', {last'.ret[1]})]_vars

\* A create that supplied the status 'bogus' has succeeded, and its row is
\* 'active'.
C4_Witness ==
  /\ last.op = "create"
  /\ last.exc = "none"
  /\ "status" \in DOMAIN last.input
  /\ last.input["status"] = Text(S_bogus)
  /\ rows[last.ret[1]].status = Text(S_active)

\* The shape the code's pattern accepts: some '@' with a character before
\* it, then at least two characters, then a '.', then at least two
\* characters.
CodeShape(e) ==
  \E i, j \in 1..Len(e) :
     /\ e[i] = "@" /\ i >= 2
     /\ e[j] = "." /\ j >= i + 3
     /\ Len(e) >= j + 2

\* The shape claimed: some '@' with a character before it, at least one
\* character between it and the final '.', at least two characters after
\* the final '.'.
ClaimedShape(e) ==
  \E i, j \in 1..Len(e) :
     /\ e[i] = "@" /\ i >= 2
     /\ e[j] = "." /\ j >= i + 2
     /\ \A k \in (j + 1)..Len(e) : e[k] # "."
     /\ Len(e) >= j + 2

\* The operation last run was given an email, a text.
TookEmail ==
  /\ last.op \in {"create", "update"}
  /\ "email" \in DOMAIN last.input
  /\ IsText(last.input["email"])

Accepted ==
  /\ last.exc = "none"
  /\ \E i \in DOMAIN rows : rows[i].email = last.input["email"]
  /\ last.op = "update" => last.ret = <<TRUE>>

Rejected ==
  /\ last.exc = "ValueError"
  /\ last.ret = <<>>

\* C10, as claimed: create and update accept an email exactly when it has
\* the claimed shape, and reject every other string.
C10_AcceptsClaimedShape ==
  TookEmail =>
    IF ClaimedShape(last.input["email"].v) THEN Accepted ELSE Rejected

\* C10, amended: create and update accept an email exactly when some '@'
\* has at least one character before it and is followed, after at least two
\* more characters, by a '.' that has at least two characters after it;
\* every other string is rejected.
C10_AcceptsCodeShape ==
  TookEmail =>
    IF CodeShape(last.input["email"].v) THEN Accepted ELSE Rejected

\* An update has put a new address, one outside the claimed shape, in place
\* of the row's first one.
C10_Witness ==
  /\ last.op = "update"
  /\ TookEmail
  /\ Accepted
  /\ last.input["email"] # Text(BaseEmail)
  /\ ~ClaimedShape(last.input["email"].v)


\* The record holds a name of two characters or more, an email and a date.
ValidButForEmail(user_data) ==
  /\ {"name", "email", "date_of_birth"} \subseteq DOMAIN user_data
  /\ IsText(user_data["name"]) /\ Len(user_data["name"].v) >= 2
  /\ IsText(user_data["email"])
  /\ IsText(user_data["date_of_birth"])

\* C2: a create, or an update of a different row, whose email is that of a
\* row in the store raises the duplicate-email error, 'Email already
\* exists', and leaves the store as it was.  (Stated for inputs that break
\* no other constraint: a record otherwise valid, a patch of the email
\* alone.)
C2_DuplicateEmailError ==
  [][/\ (/\ StepOf("create")
         /\ ValidButForEmail(last'.input)
         /\ EmailPresent(rows, last'.input["email"])) =>
           /\ last'.exc = "ValueError"
           /\ last'.msg = MsgEmailExists
           /\ rows' = rows
     /\ (/\ StepOf("update")
         /\ last'.id \in DOMAIN rows
         /\ DOMAIN last'.input = {"email"}
         /\ \E j \in DOMAIN rows \ {last'.id} :
               rows[j].email = last'.input["email"]) =>
           /\ last'.exc = "ValueError"
           /\ last'.msg = MsgEmailExists
           /\ rows' = rows]_vars

\* C3: a create with a name shorter than 2 characters, or with an email
\* that does not match the pattern and that no row holds, raises the
\* generic validation error, which carries the store's message and is not
\* the duplicate-email error; no row is persisted.
C3_GenericValidationError ==
  [][(/\ StepOf("create")
      /\ {"name", "email", "date_of_birth"} \subseteq DOMAIN last'.input
      /\ IsText(last'.input["name"])
      /\ IsText(last'.input["email"])
      /\ IsText(last'.input["date_of_birth"])
      /\ \/ Len(last'.input["name"].v) < 2
         \/ /\ ~Like(ValidEmailPattern, last'.input["email"].v)
            /\ ~EmailPresent(rows, last'.input["email"])) =>
        /\ last'.exc = "ValueError"
        /\ last'.msg # MsgEmailExists
        /\ last'.msg \in {MsgCheckEmail, MsgCheckName}
        /\ rows' = rows]_vars

\* C5: an update whose patch holds a mutable field and breaks no constraint
\* returns true exactly when the id has a row; then the mutable fields of
\* the patch take their new values and every other field of the row (id
\* and registration_date too, though the patch name them) and every other
\* row stay as they were; with no such row it returns false and nothing
\* changes.
C5_UpdateFrame ==
  [][(/\ StepOf("update")
      /\ DOMAIN last'.input \cap MutableFields # {}
      /\ last'.exc = "none") =>
        /\ last'.ret = <<last'.id \in DOMAIN rows>>
        /\ last'.id \notin DOMAIN rows => rows' = rows
        /\ last'.id \in DOMAIN rows =>
             /\ DOMAIN rows' = DOMAIN rows
             /\ SameExcept(rows, rows', {last'.id})
             /\ \A k \in DOMAIN rows[last'.id] :
                  rows'[last'.id][k] =
                    IF k \in DOMAIN last'.input \cap MutableFields
                    THEN last'.input[k]
                    ELSE rows[last'.id][k]]_vars

\* C8: after a create returns id i, a read of i gives a record whose name,
\* email, date_of_birth, phone_number and address equal the input (an
\* optional field left out reads as null), whose id is i and whose status
\* is 'active'; read_all holds exactly one entry of id i, equal to it; a
\* read of an id without a row returns None.
C8_ReadBackEqualsInput ==
  /\ (last.op = "create" /\ last.exc = "none") =>
        LET i   == last.ret[1]
            r   == SelectOne(rows, i)
            all == SelectAll(rows)
        IN /\ Len(r) = 1
           /\ r[1].id = i
           /\ r[1].name = last.input["name"]
           /\ r[1].email = last.input["email"]
           /\ r[1].date_of_birth = last.input["date_of_birth"]
           /\ r[1].phone_number = Get(last.input, "phone_number")
           /\ r[1].address = Get(last.input, "address")
           /\ r[1].status = Text(<<"a","c","t","i","v","e">>)
           /\ Cardinality({n \in 1..Len(all) : all[n].id = i}) = 1
           /\ \A n \in 1..Len(all) : all[n].id = i => all[n] = r[1]
  /\ (last.op = "read" /\ last.id \notin DOMAIN rows) =>
        last.exc = "none" /\ last.ret = <<>>

\* C9: in every reachable state every row has a status among active,
\* inactive and pending, a name of two characters or more, and an id and
\* an email that no other row has.
C9_RowsWellFormed ==
  \A i \in DOMAIN rows :
     /\ rows[i].status \in ThreeStatuses
     /\ IsText(rows[i].name) /\ Len(rows[i].name.v) >= 2
     /\ rows[i].id = i
     /\ \A j \in DOMAIN rows \ {i} : rows[j].email # rows[i].email

=============================================================================
